---- MODULE Spec2Model ----
(***************************************************************************)
(* Document-structure extraction of pdf-to-docs (package convert):         *)
(* ToC lines -> entries -> flat sections -> section tree, the fallback     *)
(* segmenter, and the non-AI path of Run.                                  *)
(*                                                                         *)
(* A Go string is modelled as a sequence of one-character strings, so that *)
(* prefix tests, splitting and regular expressions are computed character  *)
(* by character as the code computes them.                                 *)
(***************************************************************************)
EXTENDS Integers, Sequences, FiniteSets, TLC

(***************************************************************************)
(* Bounds of the model.                                                    *)
(***************************************************************************)
MaxSecs == 3        \* longest flat section list handed to buildHierarchy
MaxDepthH == 3      \* deepest Depth of a section in those lists

(***************************************************************************)
(* Strings.                                                                *)
(***************************************************************************)
Digits == {"0", "1", "2", "3", "4", "5", "6", "7", "8", "9"}

\* strings.HasPrefix(s, p)
HasPrefix(s, p) == Len(p) <= Len(s) /\ SubSeq(s, 1, Len(p)) = p

LeaderDots == 106   \* length of the run of dots replaced at toc.go:79

UpperS == <<"A", "B", "C", "D", "E", "F", "G", "H", "I", "J", "K", "L", "M",
            "N", "O", "P", "Q", "R", "S", "T", "U", "V", "W", "X", "Y", "Z">>
LowerS == <<"a", "b", "c", "d", "e", "f", "g", "h", "i", "j", "k", "l", "m",
            "n", "o", "p", "q", "r", "s", "t", "u", "v", "w", "x", "y", "z">>
Upper == {UpperS[k] : k \in 1..26}
Lower == {LowerS[k] : k \in 1..26}
RomanLetters == {"I", "V", "X", "L", "C", "D", "M"}
\* Characters that strings.Fields, strings.TrimSpace and the regexp class \s
\* treat as white space, among the characters of the model.
Space == {" ", "\t"}
\* \w of the regular expressions (word boundary \b).
WordChars == Digits \cup Upper \cup Lower \cup {"_"}

\* strings.ToLower on one character.
ToLowerChar(c) ==
    IF c \in Upper THEN LowerS[CHOOSE k \in 1..26 : UpperS[k] = c] ELSE c

ToLower(s) == [k \in 1..Len(s) |-> ToLowerChar(s[k])]

\* strings.TrimLeft / TrimRight / Trim with a set of characters to cut.
RECURSIVE TrimLeft(_, _)
TrimLeft(s, cut) ==
    IF Len(s) > 0 /\ s[1] \in cut THEN TrimLeft(Tail(s), cut) ELSE s

RECURSIVE TrimRight(_, _)
TrimRight(s, cut) ==
    IF Len(s) > 0 /\ s[Len(s)] \in cut
    THEN TrimRight(SubSeq(s, 1, Len(s) - 1), cut) ELSE s

Trim(s, cut) == TrimRight(TrimLeft(s, cut), cut)

TrimSpace(s) == Trim(s, Space)

\* strings.ReplaceAll(s, old, new), old not empty: non-overlapping matches
\* from the left.
RECURSIVE ReplaceAll(_, _, _)
ReplaceAll(s, old, new) ==
    IF Len(s) < Len(old) THEN s
    ELSE IF HasPrefix(s, old)
         THEN new \o ReplaceAll(SubSeq(s, Len(old) + 1, Len(s)), old, new)
         ELSE <<s[1]>> \o ReplaceAll(Tail(s), old, new)

\* strings.Contains(s, sub)
Contains(s, sub) ==
    \E k \in 0..(Len(s) - Len(sub)) : SubSeq(s, k + 1, k + Len(sub)) = sub

\* strings.Count(s, c) for a one-character c.
Count(s, c) == Cardinality({k \in 1..Len(s) : s[k] = c})

\* strings.Split(s, c) for a one-character separator: the pieces between the
\* separators, empty pieces included.
RECURSIVE SplitAcc(_, _, _)
SplitAcc(s, seps, cur) ==
    IF Len(s) = 0 THEN <<cur>>
    ELSE IF s[1] \in seps THEN <<cur>> \o SplitAcc(Tail(s), seps, <<>>)
         ELSE SplitAcc(Tail(s), seps, Append(cur, s[1]))

Split(s, c) == SplitAcc(s, {c}, <<>>)

\* strings.Fields(s): the maximal runs of non-space characters.
Fields(s) == SelectSeq(SplitAcc(s, Space, <<>>), LAMBDA f : Len(f) > 0)

\* strings.Join(parts, sep)
RECURSIVE Join(_, _)
Join(parts, sep) ==
    IF Len(parts) = 0 THEN <<>>
    ELSE IF Len(parts) = 1 THEN parts[1]
         ELSE parts[1] \o sep \o Join(Tail(parts), sep)

\* strconv.Atoi on a string of decimal digits (the regexps hand it \d+ only;
\* the page numbers of the model are far below the int range).
DigitVal(c) == CHOOSE v \in 0..9 : <<"0", "1", "2", "3", "4", "5", "6", "7", "8", "9">>[v + 1] = c

RECURSIVE Atoi(_)
Atoi(s) ==
    IF Len(s) = 0 THEN 0
    ELSE 10 * Atoi(SubSeq(s, 1, Len(s) - 1)) + DigitVal(s[Len(s)])

\* fmt.Sprintf("%d", n) for n >= 0.
DigitChar(v) == <<"0", "1", "2", "3", "4", "5", "6", "7", "8", "9">>[v + 1]

RECURSIVE Itoa(_)
Itoa(n) == IF n < 10 THEN <<DigitChar(n)>> ELSE Itoa(n \div 10) \o <<DigitChar(n % 10)>>

(***************************************************************************)
(* type Section (internal/convert/types.go).  Children is a sequence of    *)
(* Section values: Go copies the struct on every assignment and append, and*)
(* a TLA+ value is a copy by nature.                                       *)
(***************************************************************************)
Section(num, title, start, end, depth, slug) ==
    [Number |-> num, Title |-> title, Start |-> start, End |-> end,
     Depth |-> depth, Slug |-> slug, Children |-> <<>>]

(***************************************************************************)
(* internal/convert/util.go: slugify.                                      *)
(***************************************************************************)
SlugChars == Lower \cup Digits \cup {"-"}

\* nonSlug.ReplaceAllString(s, "-"): every maximal run of characters outside
\* [a-z0-9-] becomes one hyphen.
RECURSIVE ReplaceNonSlug(_)
ReplaceNonSlug(s) ==
    IF Len(s) = 0 THEN <<>>
    ELSE IF s[1] \in SlugChars THEN <<s[1]>> \o ReplaceNonSlug(Tail(s))
         ELSE <<"-">> \o ReplaceNonSlug(TrimLeft(s, {s[k] : k \in 1..Len(s)} \ SlugChars))

CollapseNever(s) == s

\* for strings.Contains(s, "--") { s = strings.ReplaceAll(s, "--", "-") }
RECURSIVE CollapseHyphens(_)
CollapseHyphens(s) ==
    IF Contains(s, <<"-", "-">>)
    THEN CollapseHyphens(ReplaceAll(s, <<"-", "-">>, <<"-">>))
    ELSE s

slugify(str) ==
    LET s1 == TrimSpace(ToLower(str))
        s2 == ReplaceAll(s1, <<" ">>, <<"-">>)
        s3 == ReplaceAll(s2, <<"/">>, <<"-">>)
        s4 == ReplaceAll(s3, <<".">>, <<"-">>)
        s5 == ReplaceNonSlug(s4)
        s6 == Trim(s5, {"-"})
    IN  CollapseHyphens(s6)

(***************************************************************************)
(* internal/convert/util.go: transformTables.  The text is the sequence of *)
(* its lines, strings.Split(text, "\n") on the way in and strings.Join on  *)
(* the way out.                                                            *)
(***************************************************************************)
TableCap == 50

Min(a, b) == IF a < b THEN a ELSE b

\* The length of the white space that s starts with.
RECURSIVE SpaceRun(_)
SpaceRun(s) ==
    IF Len(s) > 0 /\ s[1] \in Space THEN 1 + SpaceRun(Tail(s)) ELSE 0

\* twoPlusSpaces.Split(s, -1): the pieces between the runs of two or more
\* white-space characters.
RECURSIVE SplitWide(_, _)
SplitWide(s, cur) ==
    IF Len(s) = 0 THEN <<cur>>
    ELSE IF SpaceRun(s) >= 2
         THEN <<cur>> \o SplitWide(SubSeq(s, SpaceRun(s) + 1, Len(s)), <<>>)
         ELSE SplitWide(Tail(s), Append(cur, s[1]))

splitBy2Spaces(s) == SplitWide(TrimSpace(s), <<>>)

trimAll(a) == [k \in 1..Len(a) |-> TrimSpace(a[k])]

\* "| " + strings.Join(trimAll(row), " | ") + " |"
TableRow(row) ==
    <<"|", " ">> \o Join(trimAll(row), <<" ", "|", " ">>) \o <<" ", "|">>

\* lines 60-64: the separator row under a header of k cells.
SeparatorRow(k) == TableRow([j \in 1..k |-> <<"-", "-", "-">>])

\* lines 50-53: the block is full; the scan stops on the row just added.
BlockFull(block, i) == [block |-> block, i |-> i]

\* lines 34-55: the block of aligned rows that starts at line i (1-based);
\* returns the block and the line the scan stopped at.
RECURSIVE GrowBlock(_, _, _, _)
GrowBlock(lines, i, colsCount, block) ==
    IF i > Len(lines) THEN [block |-> block, i |-> i]
    ELSE LET ln == TrimRight(lines[i], {" "})
             parts == splitBy2Spaces(ln)
             cols == IF colsCount = 0 THEN Len(parts) ELSE colsCount
         IN  IF ln = <<>> \/ Len(parts) < 2 \/ Len(parts) # cols
             THEN [block |-> block, i |-> i]
             ELSE IF Len(block) + 1 > TableCap
                  THEN BlockFull(Append(block, parts), i)
                  ELSE GrowBlock(lines, i + 1, cols, Append(block, parts))

\* lines 58-67: header row, separator row, data rows.
RenderTable(block) ==
    <<TableRow(block[1]), SeparatorRow(Len(block[1]))>>
    \o [k \in 1..(Len(block) - 1) |-> TableRow(block[k + 1])]

\* lines 29-80: the outer loop from line i on, out being what is written.
RECURSIVE TableLoop(_, _, _)
TableLoop(lines, i, out) ==
    IF i > Len(lines) THEN out
    ELSE LET b == GrowBlock(lines, i, 0, <<>>) IN
         IF Len(b.block) >= 2
         THEN IF b.i <= Len(lines) /\ TrimSpace(lines[b.i]) = <<>>
              THEN TableLoop(lines, b.i + 1,
                             out \o RenderTable(b.block) \o <<<<>>>>)
              ELSE TableLoop(lines, b.i, out \o RenderTable(b.block))
         ELSE TableLoop(lines, b.i + 1,
                        out \o SubSeq(lines, i, Min(b.i, Len(lines))))

transformTables(lines) == TableLoop(lines, 1, <<>>)

(***************************************************************************)
(* internal/convert/toc.go: the line normalizer and the entry matcher.     *)
(***************************************************************************)
\* The three glyphs, each one character of a line.
Bullet == "U+2022"
MiddleDot == "U+00B7"
Ellipsis == "U+2026"

normalizeDotLeaders(line) ==
    LET s1 == ReplaceAll(line, <<Bullet>>, <<" ">>)
        s2 == ReplaceAll(s1, <<MiddleDot>>, <<" ">>)
        s3 == ReplaceAll(s2, <<Ellipsis>>, <<" ", ".", ".", ".", " ">>)
        \* lines 77-78 repeat the two replacements with the glyphs typed in
        s4 == ReplaceAll(s3, <<MiddleDot>>, <<" ">>)
        s5 == ReplaceAll(s4, <<Ellipsis>>, <<" ", ".", ".", ".", " ">>)
        s6 == ReplaceAll(s5, [k \in 1..LeaderDots |-> "."], <<" ">>)
        s7 == ReplaceAll(s6, <<" ", ".", " ", ".", " ", ".", " ">>, <<" ">>)
    IN  Join(Fields(s7), <<" ">>)

IsDigits(f) == Len(f) > 0 /\ \A k \in 1..Len(f) : f[k] \in Digits

\* (?:\.[0-9]+)* : empty, or a dot followed by dot-separated digit groups.
IsDotDigitGroups(f) ==
    \/ Len(f) = 0
    \/ /\ f[1] = "."
       /\ LET gs == Split(Tail(f), ".") IN \A k \in 1..Len(gs) : IsDigits(gs[k])

\* \d+(?:\.\d+)*
IsDecimalNumber(f) ==
    LET gs == Split(f, ".") IN \A k \in 1..Len(gs) : IsDigits(gs[k])

\* [A-Z](?:\.[0-9]+)*
IsAlphaKey(f) == Len(f) > 0 /\ f[1] \in Upper /\ IsDotDigitGroups(Tail(f))

\* [IVXLCDM]+(?:\.([0-9]+))? : the letters, and the digits of the sub-index
\* (empty when there is none).
RomanHead(f) == Split(f, ".")[1]
RomanSub(f) == SubSeq(f, Len(RomanHead(f)) + 2, Len(f))
IsRoman(f) ==
    /\ Len(RomanHead(f)) > 0
    /\ \A k \in 1..Len(RomanHead(f)) : RomanHead(f)[k] \in RomanLetters
    /\ \/ Len(f) = Len(RomanHead(f))
       \/ IsDigits(RomanSub(f))

tocEntry(num, title, page, depth) ==
    [Number |-> num, Title |-> title, Page |-> page, Depth |-> depth]

NoEntry == [ok |-> FALSE, e |-> tocEntry(<<>>, <<>>, 0, 0)]

\* The four patterns all read: leading token(s), \s+, a lazy title (.+?),
\* \s+, a final run of digits.  On a line whose fields are f[1..n] the title
\* is the fields between the leading token(s) and the final field; matchToC
\* is only handed normalizeDotLeaders output, where fields are joined by one
\* blank.
TitleOf(f, from) == TrimSpace(Join(SubSeq(f, from, Len(f) - 1), <<" ">>))

DepthOfKey(key) == Count(key, ".") + 1

matchToC(line) ==
    LET f == Fields(line)
        n == Len(f)
    IN  IF n >= 4 /\ f[1] \in {<<"A", "p", "p", "e", "n", "d", "i", "x">>,
                                <<"A", "P", "P", "E", "N", "D", "I", "X">>}
           /\ IsAlphaKey(f[2]) /\ IsDigits(f[n])
        THEN [ok |-> TRUE,
              e |-> tocEntry(f[2], TitleOf(f, 3), Atoi(f[n]), DepthOfKey(f[2]))]
        ELSE IF n >= 3 /\ IsDecimalNumber(f[1]) /\ IsDigits(f[n])
        THEN [ok |-> TRUE,
              e |-> tocEntry(f[1], TitleOf(f, 2), Atoi(f[n]), DepthOfKey(f[1]))]
        ELSE IF n >= 3 /\ IsAlphaKey(f[1]) /\ IsDigits(f[n])
        THEN [ok |-> TRUE,
              e |-> tocEntry(f[1], TitleOf(f, 2), Atoi(f[n]), DepthOfKey(f[1]))]
        ELSE IF n >= 3 /\ IsRoman(f[1]) /\ IsDigits(f[n])
        THEN [ok |-> TRUE,
              e |-> tocEntry(f[1], TitleOf(f, 2), Atoi(f[n]),
                             IF Len(f[1]) = Len(RomanHead(f[1])) THEN 1 ELSE 2)]
        ELSE NoEntry

isToCLine(s) == matchToC(normalizeDotLeaders(s)).ok

RECURSIVE InsertBeforeEqual(_, _)
InsertBeforeEqual(sorted, e) ==
    IF Len(sorted) = 0 THEN <<e>>
    ELSE IF sorted[Len(sorted)].Page < e.Page THEN Append(sorted, e)
         ELSE Append(InsertBeforeEqual(SubSeq(sorted, 1, Len(sorted) - 1), e),
                     sorted[Len(sorted)])

\* sort.SliceStable(out, Page less): insertion keeps equal pages in order.
RECURSIVE InsertByPage(_, _)
InsertByPage(sorted, e) ==
    IF Len(sorted) = 0 THEN <<e>>
    ELSE IF sorted[Len(sorted)].Page <= e.Page THEN Append(sorted, e)
         ELSE Append(InsertByPage(SubSeq(sorted, 1, Len(sorted) - 1), e),
                     sorted[Len(sorted)])

RECURSIVE SortStableByPage(_)
SortStableByPage(es) ==
    IF Len(es) = 0 THEN <<>>
    ELSE InsertByPage(SortStableByPage(SubSeq(es, 1, Len(es) - 1)), es[Len(es)])

RECURSIVE MatchedEntries(_)
MatchedEntries(lines) ==
    IF Len(lines) = 0 THEN <<>>
    ELSE LET m == matchToC(normalizeDotLeaders(Head(lines))) IN
         (IF m.ok THEN <<m.e>> ELSE <<>>) \o MatchedEntries(Tail(lines))

parseToCLines(lines) == SortStableByPage(MatchedEntries(lines))

(***************************************************************************)
(* internal/convert/toc.go: buildSections.                                 *)
(***************************************************************************)
DefaultMaxDepth == 10

\* lines 95-101: the end page of the section built from entries[i].
EndPageNoClamp(entries, i) ==
    IF i < Len(entries) THEN entries[i + 1].Page - 1 ELSE entries[i].Page

EndPageOwn(entries, i) == entries[i].Page

EndPage(entries, i) ==
    IF i < Len(entries)
    THEN IF entries[i + 1].Page - 1 < entries[i].Page
         THEN entries[i].Page
         ELSE entries[i + 1].Page - 1
    ELSE entries[i].Page

\* line 92: the entry is skipped.
TooDeepNever(e, maxDepth) == FALSE

TooDeep(e, maxDepth) == e.Depth > maxDepth

RECURSIVE BuildLoop(_, _, _)
BuildLoop(entries, maxDepth, i) ==
    IF i > Len(entries) THEN <<>>
    ELSE LET e == entries[i] IN
         (IF TooDeep(e, maxDepth) THEN <<>>
          ELSE <<Section(e.Number, e.Title, e.Page, EndPage(entries, i), e.Depth,
                         slugify(e.Number \o <<"-">> \o e.Title))>>)
         \o BuildLoop(entries, maxDepth, i + 1)

buildSections(entries, maxDepth) ==
    BuildLoop(entries, IF maxDepth <= 0 THEN DefaultMaxDepth ELSE maxDepth, 1)

(***************************************************************************)
(* internal/convert/types.go: the fallback segmenter.  A page is the       *)
(* sequence of its lines, strings.Split(page, "\n"); an empty page is the  *)
(* single empty line.                                                      *)
(***************************************************************************)
HeadingChars == Upper \cup Lower \cup Digits \cup {" ", ",", "-", "/", "(", ")"}
HeadingMinTail == 3

\* heading: ^[A-Z][A-Za-z0-9 ,\-/()]{3,}$
IsHeading(t) ==
    /\ Len(t) >= 1 + HeadingMinTail
    /\ t[1] \in Upper
    /\ \A k \in 2..Len(t) : t[k] \in HeadingChars

\* The first line of the page that looks like a heading (0: none).
FirstHeading(page) ==
    LET hs == {k \in 1..Len(page) : IsHeading(TrimSpace(page[k]))} IN
    IF hs = {} THEN 0 ELSE CHOOSE k \in hs : \A h \in hs : k <= h

CloseAtSame(cur, i) == [cur EXCEPT !.End = i]

\* line 310: the running section ends on the page before the heading's.
CloseAt(cur, i) == [cur EXCEPT !.End = i - 1]

\* lines 306-318: pages i..len(pages) with the running section cur.
RECURSIVE HeadingLoop(_, _, _, _, _)
HeadingLoop(pages, i, out, cur, idx) ==
    IF i > Len(pages) THEN Append(out, cur)
    ELSE LET h == FirstHeading(pages[i]) IN
         IF h # 0 /\ i # cur.Start
         THEN LET ln == pages[i][h]
                  nxt == Section(Itoa(idx + 1), TrimSpace(ln), i, i, 1,
                                 slugify(Itoa(idx + 1) \o <<"-">> \o ln))
              IN  HeadingLoop(pages, i + 1,
                              Append(out, CloseAt(cur, i)),
                              [nxt EXCEPT !.End = i], idx + 1)
         ELSE HeadingLoop(pages, i + 1, out, [cur EXCEPT !.End = i], idx)

PageTitleZero(i) == <<"P", "a", "g", "e", " ">> \o Itoa(i - 1)

\* line 323: fmt.Sprintf("Page %d", i)
PageTitle(i) == <<"P", "a", "g", "e", " ">> \o Itoa(i)

fallbackSections(pages, mode) ==
    IF mode = "heading"
    THEN HeadingLoop(pages, 1, <<>>,
                     Section(<<"1">>, <<"S", "e", "c", "t", "i", "o", "n", " ", "1">>,
                             1, 1, 1,
                             slugify(<<"1", "-", "s", "e", "c", "t", "i", "o", "n", "-", "1">>)),
                     1)
    ELSE [i \in 1..Len(pages) |->
             Section(Itoa(i), PageTitle(i), i, i, 1, slugify(PageTitle(i)))]

(***************************************************************************)
(* internal/convert/types.go: the ToC locator.                             *)
(***************************************************************************)
BlockWindow == 6      \* pages findToCBlock looks at
DefaultScan == 8      \* findToCMultiPage: n <= 0
MinExtend == 2

TocPhrase == <<"t", "a", "b", "l", "e", " ", "o", "f", " ",
               "c", "o", "n", "t", "e", "n", "t", "s">>
ContentsWord == <<"c", "o", "n", "t", "e", "n", "t", "s">>

\* (?i)\btable of contents\b somewhere in the line.
HasTocPhraseWord(ln) ==
    LET l == ToLower(ln) IN
    \E k \in 0..(Len(l) - Len(TocPhrase)) :
        /\ SubSeq(l, k + 1, k + Len(TocPhrase)) = TocPhrase
        /\ (k = 0 \/ ln[k] \notin WordChars)
        /\ (k + Len(TocPhrase) = Len(l) \/ ln[k + Len(TocPhrase) + 1] \notin WordChars)

\* headerRe on the whole page: the phrase in some line, or (?i)^\s*contents\s*$,
\* the page being the word "contents" and white space (line breaks included).
headerRe(page) ==
    \/ \E k \in 1..Len(page) : HasTocPhraseWord(page[k])
    \/ /\ \E k \in 1..Len(page) : ToLower(TrimSpace(page[k])) = ContentsWord
       /\ Cardinality({k \in 1..Len(page) : TrimSpace(page[k]) # <<>>}) = 1

\* strings.Contains(strings.ToLower(p), "table of contents")
ContainsTocPhrase(page) ==
    \E k \in 1..Len(page) : Contains(ToLower(page[k]), TocPhrase)

\* pageNumRe: \b\d+\s*$ on a trimmed line: a final run of digits that does
\* not follow a word character.
pageNumRe(t) ==
    LET d == TrimRight(t, Digits) IN
    /\ Len(d) < Len(t)
    /\ (Len(d) = 0 \/ d[Len(d)] \notin WordChars)

\* The entry lines of one page, trimmed (lines 221-226, 257-266, 277-285).
RECURSIVE TocLinesOf(_)
TocLinesOf(page) ==
    IF Len(page) = 0 THEN <<>>
    ELSE (IF isToCLine(TrimSpace(Head(page))) THEN <<TrimSpace(Head(page))>>
          ELSE <<>>)
         \o TocLinesOf(Tail(page))

\* lines 210-215: of a header page, the lines ending in a page number, as
\* they stand.
RECURSIVE NumberedLinesOf(_)
NumberedLinesOf(page) ==
    IF Len(page) = 0 THEN <<>>
    ELSE (IF pageNumRe(TrimSpace(Head(page))) THEN <<Head(page)>> ELSE <<>>)
         \o NumberedLinesOf(Tail(page))

RECURSIVE HeaderPass(_, _, _)
HeaderPass(pages, i, last) ==
    IF i > last THEN <<>>
    ELSE (IF headerRe(pages[i]) \/ ContainsTocPhrase(pages[i])
          THEN NumberedLinesOf(pages[i]) ELSE <<>>)
         \o HeaderPass(pages, i + 1, last)

RECURSIVE ScanPass(_, _, _)
ScanPass(pages, i, last) ==
    IF i > last THEN <<>>
    ELSE TocLinesOf(pages[i]) \o ScanPass(pages, i + 1, last)

findToCBlock(pages) ==
    LET last == Min(Len(pages), BlockWindow)
        lines == HeaderPass(pages, 1, last)
    IN  IF Len(lines) = 0 THEN ScanPass(pages, 1, last) ELSE lines

matchToCLines(page) == \E k \in 1..Len(page) : isToCLine(TrimSpace(page[k]))

\* lines 241-250: the first of the first n pages with a header or an entry
\* line, as a page number; lastPage stays 0 (page 1) when there is none.
StartPage(pages, n) ==
    LET c == {k \in 1..Min(Len(pages), n) :
                 headerRe(pages[k]) \/ matchToCLines(pages[k])}
    IN  IF c = {} THEN 1 ELSE CHOOSE k \in c : \A h \in c : k <= h

\* lines 255-271: pages i..last, stopping at the first page that adds nothing.
RECURSIVE ExtendLoop(_, _, _)
ExtendLoop(pages, i, last) ==
    IF i > last THEN <<>>
    ELSE LET got == TocLinesOf(pages[i]) IN
         IF Len(got) = 0 THEN <<>> ELSE got \o ExtendLoop(pages, i + 1, last)

ExtendHalf(n) == n \div 2

\* lines 251-254: how many pages the extension may visit.
Extend(n) == IF n \div 2 < MinExtend THEN MinExtend ELSE n \div 2

findToCMultiPage(pages, n0) ==
    LET n == IF n0 <= 0 THEN DefaultScan ELSE n0
        lines == findToCBlock(pages)
    IN  IF Len(lines) > 0
        THEN LET lastPage == StartPage(pages, n) IN
             lines \o ExtendLoop(pages, lastPage + 1,
                                 Min(Len(pages), lastPage + Extend(n)))
        ELSE ScanPass(pages, 1, Min(Len(pages), n))

(***************************************************************************)
(* attachChildren: the backward scan for the closest parent.  Indices are  *)
(* 1-based; 0 stands for Go's parentIdx == -1.                             *)
(***************************************************************************)
\* The test of line 107: p has a lower depth and s.Number starts with
\* p.Number + ".".
IsParentAny(p, s) == TRUE

IsParentNoDot(p, s) == p.Depth < s.Depth /\ HasPrefix(s.Number, p.Number)

IsParent(p, s) ==
    p.Depth < s.Depth /\ HasPrefix(s.Number, p.Number \o <<".">>)

RECURSIVE FindParent(_, _, _)
FindParent(ns, i, j) ==
    IF j < 1 THEN 0
    ELSE IF IsParent(ns[j], ns[i]) THEN j ELSE FindParent(ns, i, j - 1)

\* One iteration of the loop of attachChildren on the pair (nodes, roots).
AttachOne(st, i) ==
    LET parentIdx == FindParent(st.nodes, i, i - 1) IN
    IF parentIdx = 0
    THEN [nodes |-> st.nodes, roots |-> Append(st.roots, st.nodes[i])]
    ELSE [nodes |-> [st.nodes EXCEPT ![parentIdx].Children =
                                         Append(@, st.nodes[i])],
          roots |-> st.roots]

RECURSIVE AttachLoop(_, _)
AttachLoop(st, i) ==
    IF i > Len(st.nodes) THEN st ELSE AttachLoop(AttachOne(st, i), i + 1)

\* byNumber of rebuildWithChildrenOrder: the last node holding the number.
RECURSIVE ByNumber(_, _, _)
ByNumber(ns, num, k) ==
    IF k < 1 THEN 0
    ELSE IF ns[k].Number = num THEN k ELSE ByNumber(ns, num, k - 1)

rebuildKeepRoots(rs, ns) == rs

rebuildWithChildrenOrder(rs, ns) ==
    [r \in 1..Len(rs) |->
        LET k == ByNumber(ns, rs[r].Number, Len(ns)) IN
        IF k # 0 THEN ns[k] ELSE rs[r]]

attachChildren(fl) ==
    LET st == AttachLoop([nodes |-> fl, roots |-> <<>>], 1) IN
    rebuildWithChildrenOrder(st.roots, st.nodes)

\* buildHierarchy: its stack pass (lines 48-90) fills the locals roots, stack
\* and out, which are discarded; the result is attachChildren(sections).
buildHierarchy(sections) == attachChildren(sections)

(***************************************************************************)
(* Depth-first flattening of a section tree, each node without children.   *)
(***************************************************************************)
RECURSIVE Flatten(_)
RECURSIVE FlattenNode(_)
FlattenNode(s) == <<[s EXCEPT !.Children = <<>>]>> \o Flatten(s.Children)

Flatten(ss) ==
    IF Len(ss) = 0 THEN <<>> ELSE FlattenNode(Head(ss)) \o Flatten(Tail(ss))

(***************************************************************************)
(* State.                                                                  *)
(***************************************************************************)
VARIABLES
    pc,           \* where the run stands
    cfg,          \* Config: UseToC, Enhancer (set or nil), AIExclusive,
                  \* MaxDepth, ToCPages, FallbackSplit, SlugPrefix
    pages,        \* the per-page text, each page the sequence of its lines
    located,      \* what findToCMultiPage returned (empty when ToC is off)
    tocLines,     \* Run's tocLines
    repairCalls,  \* how many times Enhancer.RepairToC was called
    repairRes,    \* what the last call returned: [lines, err]
    parsedFrom,   \* the lines handed to parseToCLines, in a 0- or 1-tuple
    usedFallback, \* fallbackSections was run
    entries,      \* the entries parseToCLines returned
    sections,     \* the flat section list
    nodes,        \* attachChildren: the working copy of the flat list
    roots,        \* attachChildren: the sections placed as roots so far
    idx,          \* attachChildren: the loop index i (1-based)
    tree,         \* the roots returned by buildHierarchy
    lastPage,     \* findToCMultiPage: the page the extension starts after
                  \* (a page number; 0 before it is set)
    scanned,      \* findToCMultiPage: the pages the extension loop visited
    origin,       \* for each line of located, the page it was taken from
    input,        \* the argument a function of the package is applied to
    output,       \* what it returned, in a 1-tuple (<<>>: not applied yet)
    err           \* the error Run returned ("none": nil)

inVars == <<cfg, pages>>
locVars == <<located, tocLines, repairCalls, repairRes>>
segVars == <<parsedFrom, usedFallback, entries, sections>>
hierVars == <<nodes, roots, idx>>
extVars == <<lastPage, scanned, origin>>
fnVars == <<input, output>>
vars == <<pc, inVars, locVars, segVars, hierVars, extVars, fnVars, tree, err>>

NoRepair == [lines |-> <<>>, err |-> FALSE]

Config(useToC, enhancer, aiExclusive, maxDepth, tocPages, fallback, prefix) ==
    [UseToC |-> useToC, Enhancer |-> enhancer, AIExclusive |-> aiExclusive,
     MaxDepth |-> maxDepth, ToCPages |-> tocPages, FallbackSplit |-> fallback,
     SlugPrefix |-> prefix]

\* extractTextPerPage never returns fewer than one page; a blank page is the
\* one empty line.
BlankPage == <<<<>>>>

(***************************************************************************)
(* SpecH: buildHierarchy on every flat list within the bounds, the loop of *)
(* attachChildren taken one iteration at a time.                           *)
(***************************************************************************)
NumberPool ==
    {<<"1">>, <<"1", ".", "1">>, <<"1", ".", "1", ".", "1">>, <<"1", "1">>}

TitleT == <<"T">>

\* The section at position k of a flat list: page k, one page long.
FlatSection(num, depth, k) ==
    Section(num, TitleT, k, k, depth, slugify(num \o <<"-">> \o TitleT))

\* The flat list of length n whose section k has number and depth nd[k].
FlatList(n, nd) == [k \in 1..n |-> FlatSection(nd[k][1], nd[k][2], k)]

InitH ==
    /\ \E n \in 0..MaxSecs :
          \E nd \in [1..n -> NumberPool \X (1..MaxDepthH)] :
              sections = FlatList(n, nd)
    /\ pc = "hier"
    /\ cfg = Config(TRUE, FALSE, FALSE, MaxDepthH, 0, "page", <<>>)
    /\ pages = <<BlankPage>>
    /\ located = <<>> /\ tocLines = <<>>
    /\ repairCalls = 0 /\ repairRes = NoRepair
    /\ parsedFrom = <<>> /\ usedFallback = FALSE /\ entries = <<>>
    /\ nodes = <<>> /\ roots = <<>> /\ idx = 0
    /\ lastPage = 0 /\ scanned = <<>> /\ origin = <<>>
    /\ input = <<>> /\ output = <<>>
    /\ tree = <<>>
    /\ err = "none"

\* lines 99-101: nodes is a copy of flat, roots is empty.
AttachBegin ==
    /\ pc = "hier"
    /\ nodes' = sections
    /\ roots' = <<>>
    /\ idx' = 1
    /\ pc' = "attach"
    /\ UNCHANGED <<fnVars, extVars, inVars, locVars, segVars, tree, err>>

\* lines 102-119: one iteration.
AttachStep ==
    /\ pc = "attach"
    /\ idx <= Len(nodes)
    /\ LET st == AttachOne([nodes |-> nodes, roots |-> roots], idx) IN
       /\ nodes' = st.nodes
       /\ roots' = st.roots
    /\ idx' = idx + 1
    /\ UNCHANGED <<fnVars, extVars, pc, inVars, locVars, segVars, tree, err>>

\* line 120 and lines 123-138.
Rebuild ==
    /\ pc = "attach"
    /\ idx > Len(nodes)
    /\ tree' = rebuildWithChildrenOrder(roots, nodes)
    /\ pc' = "built"
    /\ UNCHANGED <<fnVars, extVars, inVars, locVars, segVars, hierVars, err>>

NextH == AttachBegin \/ AttachStep \/ Rebuild

SpecH == InitH /\ [][NextH]_vars

(***************************************************************************)
(* SpecS: the section pipeline of Run (lines 140-146 and 172) on every     *)
(* list of candidate lines within the bounds: parseToCLines, buildSections *)
(* and buildHierarchy, or fallbackSections when there is no line.          *)
(***************************************************************************)
MaxLines == 3       \* longest list of candidate ToC lines
MaxDepthCfg == 3    \* largest Config.MaxDepth tried (0: the default)
MaxPages == 2       \* longest document
MaxDocF == 3        \* longest document handed to the fallback segmenter

\* "1 Safety ... 4"
LineSafety ==
    <<"1", " ", "S", "a", "f", "e", "t", "y", " ", ".", ".", ".", " ", "4">>

\* "1.1 General rules ... 4"
LineRules ==
    <<"1", ".", "1", " ", "G", "e", "n", "e", "r", "a", "l", " ", "r", "u",
      "l", "e", "s", " ", ".", ".", ".", " ", "4">>

\* "2 Installation ... 9"
LineInstall ==
    <<"2", " ", "I", "n", "s", "t", "a", "l", "l", "a", "t", "i", "o", "n",
      " ", ".", ".", ".", " ", "9">>

\* "1.1.1 Use 6"
LineDeep ==
    <<"1", ".", "1", ".", "1", " ", "U", "s", "e", " ", "6">>

\* "Intro"
LineProse ==
    <<"I", "n", "t", "r", "o">>

\* "A.1 Parts<U+2026>7"
LineAppendix ==
    <<"A", ".", "1", " ", "P", "a", "r", "t", "s", "U+2026", "7">>

\* "II Scope 5"
LineRoman ==
    <<"I", "I", " ", "S", "c", "o", "p", "e", " ", "5">>

LinePool ==
    {LineSafety, LineRules, LineInstall, LineDeep,
     LineProse, LineAppendix, LineRoman}

Scenario1 == <<LineSafety, LineRules, LineInstall>>

\* "Table of Contents"
LineTocHeader ==
    <<"T", "a", "b", "l", "e", " ", "o", "f", " ", "C", "o", "n", "t", "e",
      "n", "t", "s">>

\* "see page 5"
LineSeePage ==
    <<"s", "e", "e", " ", "p", "a", "g", "e", " ", "5">>

\* Pages: blank, a ToC page with a header, a page of entries, a page of
\* prose under a heading, a contents page that only refers to pages, a page
\* of entries below the first level.
PageToc == <<LineTocHeader, LineSafety, LineSeePage>>
PageEntries == <<LineRules, LineInstall>>
PageProse == <<LineProse, LineSeePage>>
PageRefs == <<LineTocHeader, LineSeePage>>
PageDeep == <<LineRules, LineDeep>>
PagePool == {BlankPage, PageToc, PageEntries, PageProse, PageRefs, PageDeep}

FallbackModes == {"page", "heading"}

\* Config.FallbackSplit is a free string: a value that names no mode.
SplitModes == FallbackModes \cup {"chapter"}

\* The documents the fallback segmenter is run on.
FallbackPool == {BlankPage, PageToc, PageEntries, PageProse}

InitS ==
    /\ pc = "segment"
    /\ \/ /\ \E n \in 1..MaxLines : tocLines \in [1..n -> LinePool]
          /\ \E d \in 0..MaxDepthCfg :
                cfg = Config(TRUE, FALSE, FALSE, d, 0, "page", <<>>)
          /\ pages = <<BlankPage>>
       \/ /\ tocLines = <<>>
          /\ \E m \in SplitModes :
                cfg = Config(TRUE, FALSE, FALSE, MaxDepthCfg, 0, m, <<>>)
          /\ \E n \in 1..MaxDocF : pages \in [1..n -> FallbackPool]
    /\ located = tocLines
    /\ repairCalls = 0 /\ repairRes = NoRepair
    /\ parsedFrom = <<>> /\ usedFallback = FALSE /\ entries = <<>>
    /\ sections = <<>>
    /\ nodes = <<>> /\ roots = <<>> /\ idx = 0
    /\ lastPage = 0 /\ scanned = <<>> /\ origin = <<>>
    /\ input = <<>> /\ output = <<>>
    /\ tree = <<>>
    /\ err = "none"

\* Run, lines 141-142.
Parse ==
    /\ pc = "segment"
    /\ Len(tocLines) > 0
    /\ parsedFrom' = <<tocLines>>
    /\ entries' = parseToCLines(tocLines)
    /\ pc' = "build"
    /\ UNCHANGED <<fnVars, extVars, inVars, locVars, usedFallback, sections, hierVars, tree, err>>

\* Run, line 143.
Build ==
    /\ pc = "build"
    /\ sections' = buildSections(entries, cfg.MaxDepth)
    /\ pc' = "write"
    /\ UNCHANGED <<fnVars, extVars, inVars, locVars, parsedFrom, usedFallback, entries,
                   hierVars, tree, err>>

\* Run, lines 144-146.
Fallback ==
    /\ pc = "segment"
    /\ Len(tocLines) = 0
    /\ usedFallback' = TRUE
    /\ sections' = fallbackSections(pages, cfg.FallbackSplit)
    /\ pc' = "write"
    /\ UNCHANGED <<fnVars, extVars, inVars, locVars, parsedFrom, entries, hierVars, tree, err>>

\* Run, lines 158-160: the slug under Config.SlugPrefix.
Prefixed(sec, prefix) ==
    IF prefix # <<>>
    THEN [sec EXCEPT !.Slug = slugify(prefix \o <<"-">> \o sec.Slug)]
    ELSE sec

\* Run, lines 148-169: every section gets its slug and its page is written;
\* a failing os.WriteFile ends the run with the error.
Write ==
    /\ pc = "write"
    /\ \E ok \in BOOLEAN :
          IF ok
          THEN /\ sections' = [k \in 1..Len(sections) |->
                                  Prefixed(sections[k], cfg.SlugPrefix)]
               /\ pc' = "hier"
               /\ err' = err
          ELSE /\ Len(sections) > 0
               /\ sections' = sections
               /\ pc' = "returned"
               /\ err' = "write"
    /\ UNCHANGED <<fnVars, extVars, inVars, locVars, parsedFrom, usedFallback, entries,
                   hierVars, tree>>

\* Run, line 172.
Hierarchy ==
    /\ pc = "hier"
    /\ tree' = buildHierarchy(sections)
    /\ pc' = "nav"
    /\ UNCHANGED <<fnVars, extVars, inVars, locVars, segVars, hierVars, err>>

NextS == Parse \/ Build \/ Fallback \/ Write \/ Hierarchy

SpecS == InitS /\ [][NextS]_vars

(***************************************************************************)
(* Spec: Run.  The per-page text is what the page text provider handed     *)
(* over (extractTextPerPage, which in this repository returns blank pages  *)
(* only); the Enhancer is an interface, so a call may return any lines and *)
(* may fail.                                                               *)
(***************************************************************************)
ScanBudgets == {0, 1}
SlugPrefixes == {<<>>, <<"p">>}

\* Config.MaxDepth: unset (the default applies), first level only, the bound.
MaxDepths == {0, 1, MaxDepthCfg}

Configs ==
    {Config(u, e, a, d, n, m, x) :
        u \in BOOLEAN, e \in BOOLEAN, a \in BOOLEAN, d \in MaxDepths,
        n \in ScanBudgets, m \in FallbackModes, x \in SlugPrefixes}

\* What Enhancer.RepairToC may return for raw: raw itself (Noop, and Gemini
\* without client or answer), other lines, no line, an error.
RepairResults(raw) ==
    {[lines |-> raw, err |-> FALSE],
     [lines |-> Scenario1, err |-> FALSE],
     [lines |-> <<>>, err |-> FALSE],
     [lines |-> <<>>, err |-> TRUE],
     [lines |-> <<LineInstall>>, err |-> TRUE]}

\* What Enhancer.ExtractStructure may return.
StructuredSection(num, title, start, end, depth) ==
    [Number |-> num, Title |-> title, Start |-> start, End |-> end,
     Depth |-> depth]

ExtractResults ==
    {[sections |-> <<>>, err |-> TRUE],
     [sections |-> <<>>, err |-> FALSE],
     [sections |-> <<StructuredSection(<<"1">>, TitleT, 1, 2, 1),
                     StructuredSection(<<"1", ".", "1">>, TitleT, 2, 2, 2)>>,
      err |-> FALSE]}

Init ==
    /\ pc = "start"
    /\ cfg \in Configs
    /\ \E n \in 1..MaxPages : pages \in [1..n -> PagePool]
    /\ located = <<>> /\ tocLines = <<>>
    /\ repairCalls = 0 /\ repairRes = NoRepair
    /\ parsedFrom = <<>> /\ usedFallback = FALSE /\ entries = <<>>
    /\ sections = <<>>
    /\ nodes = <<>> /\ roots = <<>> /\ idx = 0
    /\ lastPage = 0 /\ scanned = <<>> /\ origin = <<>>
    /\ input = <<>> /\ output = <<>>
    /\ tree = <<>>
    /\ err = "none"

\* Run, lines 58-71 and 126-129: the output directory and docs.json; the
\* page text provider never fails.
Begin ==
    /\ pc = "start"
    /\ \E ok \in BOOLEAN :
          IF ok
          THEN /\ pc' = IF cfg.AIExclusive /\ cfg.Enhancer THEN "ai" ELSE "locate"
               /\ err' = err
          ELSE /\ pc' = "returned"
               /\ err' = "init"
    /\ UNCHANGED <<fnVars, extVars, inVars, locVars, segVars, hierVars, tree>>

\* Run, lines 74-124: the AI-exclusive path keeps the depth-1 sections.
RECURSIVE TopLevelOf(_)
TopLevelOf(ss) ==
    IF Len(ss) = 0 THEN <<>>
    ELSE (IF Head(ss).Depth # 1 THEN <<>>
          ELSE <<Section(Head(ss).Number, Head(ss).Title, Head(ss).Start,
                         Head(ss).End, Head(ss).Depth, slugify(Head(ss).Title))>>)
         \o TopLevelOf(Tail(ss))

Exclusive ==
    /\ pc = "ai"
    /\ \E res \in ExtractResults, ok \in BOOLEAN :
          IF res.err \/ Len(res.sections) = 0
          THEN /\ ok
               /\ err' = "extraction"
               /\ sections' = sections
          ELSE /\ err' = IF ok THEN err ELSE "navigation"
               /\ sections' = IF ok THEN TopLevelOf(res.sections) ELSE sections
    /\ pc' = "returned"
    /\ UNCHANGED <<fnVars, extVars, inVars, locVars, parsedFrom, usedFallback, entries,
                   hierVars, tree>>

\* Run, lines 131-133.
Locate ==
    /\ pc = "locate"
    /\ located' = IF cfg.UseToC THEN findToCMultiPage(pages, cfg.ToCPages)
                  ELSE <<>>
    /\ tocLines' = located'
    /\ pc' = "repair"
    /\ UNCHANGED <<fnVars, extVars, inVars, repairCalls, repairRes, segVars, hierVars, tree, err>>

\* Run, line 134: the repair service is asked.
RepairWanted(useToC, enhancer, lines) ==
    useToC /\ enhancer /\ Len(lines) > 0

\* Run, line 135: the answer replaces tocLines.
RepairTakenOnError(res) == Len(res.lines) > 0

RepairTakenEmpty(res) == ~res.err

RepairTaken(res) == ~res.err /\ Len(res.lines) > 0

\* Run, lines 134-138.
Repair ==
    /\ pc = "repair"
    /\ RepairWanted(cfg.UseToC, cfg.Enhancer, tocLines)
    /\ \E res \in RepairResults(tocLines) :
          /\ repairRes' = res
          /\ tocLines' = IF RepairTaken(res) THEN res.lines ELSE tocLines
    /\ repairCalls' = repairCalls + 1
    /\ pc' = "segment"
    /\ UNCHANGED <<fnVars, extVars, inVars, located, segVars, hierVars, tree, err>>

SkipRepair ==
    /\ pc = "repair"
    /\ ~RepairWanted(cfg.UseToC, cfg.Enhancer, tocLines)
    /\ pc' = "segment"
    /\ UNCHANGED <<fnVars, extVars, inVars, locVars, segVars, hierVars, tree, err>>

\* Run, lines 173-179: docs.json and index.mdx are written.
Navigation ==
    /\ pc = "nav"
    /\ \E ok \in BOOLEAN : err' = IF ok THEN err ELSE "navigation"
    /\ pc' = "returned"
    /\ UNCHANGED <<fnVars, extVars, inVars, locVars, segVars, hierVars, tree>>

Next ==
    \/ Begin \/ Exclusive \/ Locate \/ Repair \/ SkipRepair
    \/ Parse \/ Build \/ Fallback \/ Write \/ Hierarchy \/ Navigation

Spec == Init /\ [][Next]_vars

(***************************************************************************)
(* SpecL: findToCMultiPage with the extension loop taken one page at a     *)
(* time, every returned line carrying the page it was read from.           *)
(***************************************************************************)
MaxDocL == 4        \* longest document handed to the locator

LocPool == {PageToc, PageEntries, PageProse, PageDeep}

Repeat(v, k) == [j \in 1..k |-> v]

\* The pages of the lines HeaderPass collects, line by line.
RECURSIVE HeaderOrigins(_, _, _)
HeaderOrigins(ps, i, last) ==
    IF i > last THEN <<>>
    ELSE (IF headerRe(ps[i]) \/ ContainsTocPhrase(ps[i])
          THEN Repeat(i, Len(NumberedLinesOf(ps[i]))) ELSE <<>>)
         \o HeaderOrigins(ps, i + 1, last)

\* The pages of the lines ScanPass collects, line by line.
RECURSIVE ScanOrigins(_, _, _)
ScanOrigins(ps, i, last) ==
    IF i > last THEN <<>>
    ELSE Repeat(i, Len(TocLinesOf(ps[i]))) \o ScanOrigins(ps, i + 1, last)

\* The pages of the lines findToCBlock returns.
BlockOrigins(ps) ==
    LET last == Min(Len(ps), BlockWindow) IN
    IF Len(HeaderPass(ps, 1, last)) = 0
    THEN ScanOrigins(ps, 1, last) ELSE HeaderOrigins(ps, 1, last)

\* lines 234-236.
ScanBudget(n0) == IF n0 <= 0 THEN DefaultScan ELSE n0

\* line 255: the last page the extension may visit.
ExtendLimit(ps, p, n) == Min(Len(ps), p + Extend(n))

\* line 255: the loop index i, as a page number.
NextScan == lastPage + Len(scanned) + 1

InitL ==
    /\ pc = "detect"
    /\ \E n \in 1..MaxDocL : pages \in [1..n -> LocPool]
    /\ \E b \in ScanBudgets :
          cfg = Config(TRUE, FALSE, FALSE, 0, b, "page", <<>>)
    /\ located = <<>> /\ tocLines = <<>>
    /\ repairCalls = 0 /\ repairRes = NoRepair
    /\ parsedFrom = <<>> /\ usedFallback = FALSE /\ entries = <<>>
    /\ sections = <<>>
    /\ nodes = <<>> /\ roots = <<>> /\ idx = 0
    /\ lastPage = 0 /\ scanned = <<>> /\ origin = <<>>
    /\ input = <<>> /\ output = <<>>
    /\ tree = <<>>
    /\ err = "none"

\* lines 238-250: the simple detector, and the page the extension starts after.
Detect ==
    /\ pc = "detect"
    /\ LET lines == findToCBlock(pages) IN
       IF Len(lines) > 0
       THEN /\ located' = lines
            /\ origin' = BlockOrigins(pages)
            /\ lastPage' = StartPage(pages, ScanBudget(cfg.ToCPages))
            /\ pc' = "extend"
       ELSE /\ UNCHANGED <<located, origin, lastPage>>
            /\ pc' = "scan"
    /\ UNCHANGED <<fnVars, inVars, tocLines, repairCalls, repairRes, segVars,
                   hierVars, scanned, tree, err>>

\* lines 255-271: one page of the extension loop; a page that adds nothing
\* ends the loop.
ExtendStep ==
    /\ pc = "extend"
    /\ NextScan <= ExtendLimit(pages, lastPage, ScanBudget(cfg.ToCPages))
    /\ LET got == TocLinesOf(pages[NextScan]) IN
       /\ located' = located \o got
       /\ origin' = origin \o Repeat(NextScan, Len(got))
       /\ pc' = IF Len(got) = 0 THEN "located" ELSE "extend"
    /\ scanned' = Append(scanned, NextScan)
    /\ UNCHANGED <<fnVars, inVars, tocLines, repairCalls, repairRes, segVars,
                   hierVars, lastPage, tree, err>>

\* line 255 and 272: the loop condition fails.
ExtendDone ==
    /\ pc = "extend"
    /\ NextScan > ExtendLimit(pages, lastPage, ScanBudget(cfg.ToCPages))
    /\ pc' = "located"
    /\ UNCHANGED <<fnVars, inVars, locVars, segVars, hierVars, extVars, tree, err>>

\* lines 274-287: nothing detected, every entry line of the first n pages.
ScanAll ==
    /\ pc = "scan"
    /\ LET last == Min(Len(pages), ScanBudget(cfg.ToCPages)) IN
       /\ located' = ScanPass(pages, 1, last)
       /\ origin' = ScanOrigins(pages, 1, last)
    /\ pc' = "located"
    /\ UNCHANGED <<fnVars, inVars, tocLines, repairCalls, repairRes, segVars,
                   hierVars, lastPage, scanned, tree, err>>

NextL == Detect \/ ExtendStep \/ ExtendDone \/ ScanAll

SpecL == InitL /\ [][NextL]_vars

(***************************************************************************)
(* internal/convert/types.go: collectTextByPage.  A panic of the runtime   *)
(* (index out of range) is an outcome of its own.                          *)
(***************************************************************************)
\* strings.TrimSpace on the text of a page: the blank lines at both ends go
\* (a line break is white space), and so does the white space before the
\* first and after the last line left.
TrimPage(page) ==
    LET ks == {k \in 1..Len(page) : TrimSpace(page[k]) # <<>>} IN
    IF ks = {} THEN <<<<>>>>
    ELSE LET a == CHOOSE k \in ks : \A h \in ks : k <= h
             b == CHOOSE k \in ks : \A h \in ks : h <= k
         IN  [k \in 1..(b - a + 1) |->
                 IF a = b THEN TrimSpace(page[a])
                 ELSE IF k = 1 THEN TrimLeft(page[a], Space)
                 ELSE IF k = b - a + 1 THEN TrimRight(page[b], Space)
                 ELSE page[a + k - 1]]

PageText(i, text) == [Page |-> i, Text |-> text]

\* lines 188-190.
ClampStart(start) == IF start < 1 THEN 1 ELSE start

ClampEndNone(end, n) == end

\* lines 191-193.
ClampEnd(end, n) == IF end > n THEN n ELSE end

\* lines 195-199: pages i..end; pages[i-1] outside the list panics.
RECURSIVE CollectLoop(_, _, _, _)
CollectLoop(ps, i, end, out) ==
    IF i > end THEN [panicked |-> FALSE, out |-> out]
    ELSE IF i < 1 \/ i > Len(ps) THEN [panicked |-> TRUE, out |-> out]
    ELSE CollectLoop(ps, i + 1, end,
                     Append(out, PageText(i, transformTables(TrimPage(ps[i])))))

collectTextByPage(ps, start, end) ==
    CollectLoop(ps, ClampStart(start), ClampEnd(end, Len(ps)), <<>>)

(***************************************************************************)
(* SpecC: collectTextByPage on every span around the pages of a document,  *)
(* the spans a printed page number may give included.                      *)
(***************************************************************************)
MaxDocC == 3        \* longest document pages are collected from
SpanSlack == 2      \* how far a span may lie outside the document

\* A page of two aligned rows between blank lines.
PageTable ==
    <<<<>>, <<" ", "a", " ", " ", "b">>, <<"c", " ", " ", "d">>, <<" ">>>>

CollectPool == {BlankPage, PageProse, PageTable}

InitC ==
    /\ pc = "collect"
    /\ \E n \in 1..MaxDocC : pages \in [1..n -> CollectPool]
    /\ \E a \in (1 - SpanSlack)..(MaxDocC + SpanSlack),
          b \in (1 - SpanSlack)..(MaxDocC + SpanSlack) :
          input = [Start |-> a, End |-> b]
    /\ output = <<>>
    /\ cfg = Config(TRUE, FALSE, FALSE, 0, 0, "page", <<>>)
    /\ located = <<>> /\ tocLines = <<>>
    /\ repairCalls = 0 /\ repairRes = NoRepair
    /\ parsedFrom = <<>> /\ usedFallback = FALSE /\ entries = <<>>
    /\ sections = <<>>
    /\ nodes = <<>> /\ roots = <<>> /\ idx = 0
    /\ lastPage = 0 /\ scanned = <<>> /\ origin = <<>>
    /\ tree = <<>>
    /\ err = "none"

\* Run, line 157.
Collect ==
    /\ pc = "collect"
    /\ output' = <<collectTextByPage(pages, input.Start, input.End)>>
    /\ pc' = "done"
    /\ UNCHANGED <<input, inVars, locVars, segVars, hierVars, extVars, tree, err>>

NextC == Collect

SpecC == InitC /\ [][NextC]_vars

(***************************************************************************)
(* SpecT: transformTables on every short text over a few kinds of line,    *)
(* alone or after a long run of aligned rows.                              *)
(***************************************************************************)
MaxText == 3        \* longest free part of a text, in lines

\* "a  b", "c  d", "e  f  g"
RowAB == <<"a", " ", " ", "b">>
RowCD == <<"c", " ", " ", "d">>
RowEFG == <<"e", " ", " ", "f", " ", " ", "g">>

TextLines == {RowAB, RowCD, RowEFG, LineProse, <<>>}

\* How many rows "a  b" come first: none, a run under the cap, a run over it.
RunLengths == {0, TableCap - 1, TableCap + 1}

InitT ==
    /\ pc = "table"
    /\ \E r \in RunLengths, n \in 1..MaxText :
          \E t \in [1..n -> TextLines] : input = Repeat(RowAB, r) \o t
    /\ output = <<>>
    /\ cfg = Config(TRUE, FALSE, FALSE, 0, 0, "page", <<>>)
    /\ pages = <<BlankPage>>
    /\ located = <<>> /\ tocLines = <<>>
    /\ repairCalls = 0 /\ repairRes = NoRepair
    /\ parsedFrom = <<>> /\ usedFallback = FALSE /\ entries = <<>>
    /\ sections = <<>>
    /\ nodes = <<>> /\ roots = <<>> /\ idx = 0
    /\ lastPage = 0 /\ scanned = <<>> /\ origin = <<>>
    /\ tree = <<>>
    /\ err = "none"

Transform ==
    /\ pc = "table"
    /\ output' = <<transformTables(input)>>
    /\ pc' = "done"
    /\ UNCHANGED <<input, inVars, locVars, segVars, hierVars, extVars, tree, err>>

NextT == Transform

SpecT == InitT /\ [][NextT]_vars

(***************************************************************************)
(* SpecM: the entry matcher on the normalized line, for decimal entries    *)
(* "N.M title leader PAGE" under every leader style, the leader set off by *)
(* blanks or joined directly to title and page.                            *)
(***************************************************************************)
MaxPageNo == 12     \* largest printed page number

MajorNumbers == {<<"1">>, <<"1", "2">>}
MinorNumbers == {<<"1">>, <<"1", "0">>}

\* "Use", "Top 10"
EntryTitles == {<<"U", "s", "e">>, <<"T", "o", "p", " ", "1", "0">>}

\* Literal dots (a run, spaced single dots), bullets, middle dots, the
\* ellipsis glyph.
LeaderStyles ==
    {Repeat(".", 12), <<".", " ", ".", " ", ".", " ", ".">>,
     <<Bullet, Bullet, Bullet>>, <<MiddleDot, MiddleDot>>, <<Ellipsis>>}

PageNumbers == {4, MaxPageNo}

\* The printed line; gap is what stands on both sides of the leader.
EntryLine(n, m, title, leader, gap, page) ==
    n \o <<".">> \o m \o <<" ">> \o title \o gap \o leader \o gap \o Itoa(page)

InitM ==
    /\ pc = "match"
    /\ \E n \in MajorNumbers, m \in MinorNumbers, t \in EntryTitles,
          l \in LeaderStyles, g \in {<<>>, <<" ">>}, p \in PageNumbers :
          input = [N |-> n, M |-> m, Leader |-> l, Gap |-> g, Page |-> p,
                   Line |-> EntryLine(n, m, t, l, g, p)]
    /\ output = <<>>
    /\ cfg = Config(TRUE, FALSE, FALSE, 0, 0, "page", <<>>)
    /\ pages = <<BlankPage>>
    /\ located = <<>> /\ tocLines = <<>>
    /\ repairCalls = 0 /\ repairRes = NoRepair
    /\ parsedFrom = <<>> /\ usedFallback = FALSE /\ entries = <<>>
    /\ sections = <<>>
    /\ nodes = <<>> /\ roots = <<>> /\ idx = 0
    /\ lastPage = 0 /\ scanned = <<>> /\ origin = <<>>
    /\ tree = <<>>
    /\ err = "none"

\* parseToCLines, lines 28-29, on one line.
Match ==
    /\ pc = "match"
    /\ output' = <<matchToC(normalizeDotLeaders(input.Line))>>
    /\ pc' = "done"
    /\ UNCHANGED <<input, inVars, locVars, segVars, hierVars, extVars, tree, err>>

NextM == Match

SpecM == InitM /\ [][NextM]_vars

(***************************************************************************)
(* SpecG: slugify on every short string over letters of both cases, a      *)
(* digit, the hyphen, the blank, the dot and the underscore.               *)
(***************************************************************************)
MaxSlugIn == 4      \* longest string handed to slugify

SlugAlphabet == {"a", "B", "7", "-", " ", ".", "_"}

InitG ==
    /\ pc = "slug"
    /\ \E n \in 0..MaxSlugIn : input \in [1..n -> SlugAlphabet]
    /\ output = <<>>
    /\ cfg = Config(TRUE, FALSE, FALSE, 0, 0, "page", <<>>)
    /\ pages = <<BlankPage>>
    /\ located = <<>> /\ tocLines = <<>>
    /\ repairCalls = 0 /\ repairRes = NoRepair
    /\ parsedFrom = <<>> /\ usedFallback = FALSE /\ entries = <<>>
    /\ sections = <<>>
    /\ nodes = <<>> /\ roots = <<>> /\ idx = 0
    /\ lastPage = 0 /\ scanned = <<>> /\ origin = <<>>
    /\ tree = <<>>
    /\ err = "none"

Slugify ==
    /\ pc = "slug"
    /\ output' = <<slugify(input)>>
    /\ pc' = "done"
    /\ UNCHANGED <<input, inVars, locVars, segVars, hierVars, extVars, tree, err>>

NextG == Slugify

SpecG == InitG /\ [][NextG]_vars

(***************************************************************************)
(* Claims on the hierarchy assembler.                                      *)
(***************************************************************************)
\* C1: no section is lost: the tree returned by buildHierarchy, flattened
\* depth-first, has as many sections as the flat list it was built from.
C1_NoSectionLost ==
    pc = "built" => Len(Flatten(tree)) = Len(sections)

IsChain(ss) ==
    /\ Len(ss) = 3
    /\ ss[1].Number = <<"1">> /\ ss[1].Depth = 1
    /\ ss[2].Number = <<"1", ".", "1">> /\ ss[2].Depth = 2
    /\ ss[3].Number = <<"1", ".", "1", ".", "1">> /\ ss[3].Depth = 3

\* C2: for the chain "1", "1.1", "1.1.1" the returned tree is the single root
\* "1", whose only child "1.1" carries the only grandchild "1.1.1".
C2_ChainNested ==
    (pc = "built" /\ IsChain(sections)) =>
        tree = <<[sections[1] EXCEPT !.Children =
                    <<[sections[2] EXCEPT !.Children = <<sections[3]>>]>>]>>

\* s begins with p followed by a dot.
BeginsWithDot(s, p) ==
    /\ Len(s) > Len(p)
    /\ \A k \in 1..Len(p) : s[k] = p[k]
    /\ s[Len(p) + 1] = "."

Eligible(i) ==
    {j \in 1..(i - 1) : /\ sections[j].Depth < sections[i].Depth
                        /\ BeginsWithDot(sections[i].Number, sections[j].Number)}

\* The nearest eligible earlier section of section i (0: none).
Nearest(i) ==
    IF Eligible(i) = {} THEN 0
    ELSE CHOOSE j \in Eligible(i) : \A h \in Eligible(i) : h <= j

\* The sections at the positions 1..n that satisfy want, in list order.
Picked(n, want(_)) ==
    LET ks == SelectSeq([k \in 1..n |-> k], want) IN
    [m \in 1..Len(ks) |-> sections[ks[m]]]

C8_Idempotent ==
    pc = "built" => buildHierarchy(Flatten(tree)) = tree

(***************************************************************************)
(* Claims on the section builder and the section pipeline.                 *)
(***************************************************************************)
\* The largest depth buildSections keeps.
KeptDepth == IF cfg.MaxDepth <= 0 THEN DefaultMaxDepth ELSE cfg.MaxDepth

\* The positions in entries of the entries buildSections keeps, in order.
Kept == SelectSeq([i \in 1..Len(entries) |-> i],
                  LAMBDA i : entries[i].Depth <= KeptDepth)

\* buildSections has run on entries.
Built == pc \in {"write", "hier", "nav"} /\ ~usedFallback

Ascending(es) == \A i \in 1..(Len(es) - 1) : es[i].Page <= es[i + 1].Page

MaxOf(a, b) == IF a >= b THEN a ELSE b

\* C4 as stated: every section but the last ends on the page before the
\* next section starts, and the last section ends on its start page.
C4_EndBeforeNextStart ==
    (Built /\ Ascending(entries)) =>
        /\ \A k \in 1..(Len(sections) - 1) :
              sections[k].End = sections[k + 1].Start - 1
        /\ Len(sections) > 0 =>
              sections[Len(sections)].End = sections[Len(sections)].Start

\* C4 amended: the section built from entry i ends on the page before entry
\* i+1 of the entry list (kept or not), but never before its own start page;
\* the section built from the last entry ends on its start page.
C4_EndClampedToNextEntry ==
    (Built /\ Ascending(entries)) =>
        /\ Len(sections) = Len(Kept)
        /\ \A k \in 1..Len(Kept) :
              LET i == Kept[k] IN
              /\ sections[k].Start = entries[i].Page
              /\ sections[k].End =
                    IF i < Len(entries)
                    THEN MaxOf(entries[i].Page, entries[i + 1].Page - 1)
                    ELSE entries[i].Page

\* Two kept entries on the same page, and a kept entry followed by a
\* dropped one.
C4_Witness ==
    /\ Built
    /\ \E k \in 1..Len(Kept) :
          Kept[k] < Len(entries) /\ entries[Kept[k] + 1].Page = entries[Kept[k]].Page
    /\ \E k \in 1..Len(Kept) :
          Kept[k] < Len(entries) /\ entries[Kept[k] + 1].Depth > KeptDepth

\* Number, start page, end page and children of a section tree.
RECURSIVE Shape(_)
Shape(ss) ==
    [k \in 1..Len(ss) |->
        [Number |-> ss[k].Number, Start |-> ss[k].Start, End |-> ss[k].End,
         Children |-> Shape(ss[k].Children)]]

Node(num, start, end, children) ==
    [Number |-> num, Start |-> start, End |-> end, Children |-> children]

Scenario1Run == pc = "nav" /\ tocLines = Scenario1 /\ cfg.MaxDepth # 1

\* C5 as stated: scenario 1 yields root "1" (4..8) with the child "1.1"
\* (4..8), and root "2" (9..9).
C5_Scenario1 ==
    Scenario1Run =>
        Shape(tree) =
            <<Node(<<"1">>, 4, 8, <<Node(<<"1", ".", "1">>, 4, 8, <<>>)>>),
              Node(<<"2">>, 9, 9, <<>>)>>

\* C5 amended: scenario 1 yields root "1" (4..4) with the child "1.1"
\* (4..8), and root "2" (9..9).
C5_Scenario1Clamped ==
    Scenario1Run =>
        Shape(tree) =
            <<Node(<<"1">>, 4, 4, <<Node(<<"1", ".", "1">>, 4, 8, <<>>)>>),
              Node(<<"2">>, 9, 9, <<>>)>>

C5_Witness == Scenario1Run /\ Len(tree) = 2 /\ Len(tree[1].Children) = 1

\* What buildSections must carry over from an entry.
Carried(r, page) ==
    [Number |-> r.Number, Title |-> r.Title, Start |-> page, Depth |-> r.Depth]

\* C6: with maxDepth >= 1 the sections are the entries of depth <= maxDepth,
\* in entry order, each with the number, title, page and depth of its entry.
C6_DropsExactlyTooDeep ==
    (Built /\ cfg.MaxDepth >= 1) =>
        [k \in 1..Len(sections) |-> Carried(sections[k], sections[k].Start)]
          = [k \in 1..Len(Kept) |->
                Carried(entries[Kept[k]], entries[Kept[k]].Page)]

\* An entry is dropped between two that are kept.
C6_Witness ==
    /\ Built /\ cfg.MaxDepth >= 1
    /\ Len(entries) = 3 /\ Kept = <<1, 3>>

\* C7: every section the section builder or the fallback segmenter produced
\* has Start <= End and Depth >= 1.
C7_SpanAndDepth ==
    pc \in {"write", "hier", "nav"} =>
        \A k \in 1..Len(sections) :
            sections[k].Start <= sections[k].End /\ sections[k].Depth >= 1

\* A section whose successor entry is on the same page, so that the page
\* before the successor lies before its start.
C7_Witness ==
    /\ Built
    /\ \E k \in 1..Len(Kept) :
          /\ Kept[k] < Len(entries)
          /\ entries[Kept[k] + 1].Page - 1 < sections[k].Start

(***************************************************************************)
(* Claims on the non-AI path of Run.                                       *)
(***************************************************************************)
\* The sections without their slugs (Run rewrites the slug under a prefix).
Unslugged(ss) == [k \in 1..Len(ss) |-> [ss[k] EXCEPT !.Slug = <<>>]]

\* C9: the sections come from the fallback segmenter exactly when the
\* locator returned no line (or ToC use is off), and otherwise from
\* parseToCLines followed by buildSections; the fallback never runs when the
\* locator returned a line.
C9_FallbackIffNoLine ==
    /\ usedFallback => (located = <<>> /\ parsedFrom = <<>>)
    /\ parsedFrom # <<>> => (located # <<>> /\ ~usedFallback)
    /\ pc \in {"write", "hier", "nav"} =>
          IF located = <<>>
          THEN /\ usedFallback
               /\ Unslugged(sections)
                    = Unslugged(fallbackSections(pages, cfg.FallbackSplit))
          ELSE /\ ~usedFallback
               /\ parsedFrom # <<>>
               /\ entries = parseToCLines(parsedFrom[1])
               /\ Unslugged(sections)
                    = Unslugged(buildSections(entries, cfg.MaxDepth))

\* The locator found lines, the repair service answered with no line, and
\* the sections were still built from ToC lines.
C9_Witness ==
    /\ pc = "nav"
    /\ located # <<>>
    /\ repairCalls = 1 /\ ~repairRes.err /\ repairRes.lines = <<>>
    /\ ~usedFallback /\ Len(sections) > 0

\* C10: the repair service is called at most once, and only when the
\* locator returned a line; when the call fails or returns no line,
\* parseToCLines gets the locator's own lines, and the run goes on without
\* an error.
C10_RepairOnceNonFatal ==
    /\ repairCalls <= 1
    /\ repairCalls = 1 => located # <<>>
    /\ (pc = "segment" /\ repairCalls = 1) => err = "none"
    /\ (repairCalls = 1 /\ (repairRes.err \/ repairRes.lines = <<>>)) =>
          /\ parsedFrom # <<>> => parsedFrom = <<located>>
          /\ pc \in {"build", "write", "hier", "nav"} => parsedFrom # <<>>

\* The call failed while handing back lines, and parseToCLines got the
\* locator's lines all the same.
C10_Witness ==
    /\ pc = "build"
    /\ repairCalls = 1
    /\ repairRes.err /\ repairRes.lines # <<>>
    /\ parsedFrom = <<located>>

(***************************************************************************)
(* Claims on Run as a whole, continued.                                    *)
(***************************************************************************)
\* The run took the path through the locator, not the AI-exclusive one.
NonAIPath == ~(cfg.AIExclusive /\ cfg.Enhancer)

LocatorAgrees ==
    pc = "located" => located = findToCMultiPage(pages, cfg.ToCPages)

\* The extension ran: initial detection found lines and a start page.
Extended == pc = "located" /\ lastPage # 0

\* The entry lines of the pages listed in ks, page after page.
RECURSIVE LinesOfPages(_)
LinesOfPages(ks) ==
    IF Len(ks) = 0 THEN <<>>
    ELSE TocLinesOf(pages[Head(ks)]) \o LinesOfPages(Tail(ks))

\* The scanned page that contributed no line (0: none).
StopPage ==
    IF Len(scanned) > 0 /\ TocLinesOf(pages[scanned[Len(scanned)]]) = <<>>
    THEN scanned[Len(scanned)] ELSE 0

\* The pages after the start page are visited in order, at most
\* max(2, n/2) of them; every entry line of a visited page is added after
\* the lines of the initial detection; the visit ends at the first page
\* without an entry line, and otherwise only at the limit or the end of the
\* document.
ExtensionScan ==
    LET n == ScanBudget(cfg.ToCPages)
        m == Len(scanned)
    IN  /\ scanned = [k \in 1..m |-> lastPage + k]
        /\ m <= MaxOf(2, n \div 2)
        /\ located = findToCBlock(pages) \o LinesOfPages(scanned)
        /\ \A j \in 1..m : TocLinesOf(pages[scanned[j]]) = <<>> => j = m
        /\ StopPage = 0 =>
               lastPage + m = Min(Len(pages), lastPage + MaxOf(2, n \div 2))

\* C12 as stated: the extension visits the pages after the start page in
\* order, at most max(2, n/2) of them, adds every entry line of each, stops
\* at the first page contributing none, and no returned line comes from a
\* page after that page.
C12_ExtensionStops ==
    Extended =>
        /\ ExtensionScan
        /\ StopPage # 0 => \A j \in 1..Len(origin) : origin[j] <= StopPage

\* C12 amended: the same scan, and no line ADDED BY THE EXTENSION comes from
\* the stopping page or a later one; the lines of the initial detection
\* stay first in the result, whatever page of its window they were read
\* from.
C12_ExtensionAddsNothingLater ==
    Extended =>
        /\ ExtensionScan
        /\ Len(origin) = Len(located)
        /\ SubSeq(origin, 1, Len(findToCBlock(pages))) = BlockOrigins(pages)
        /\ StopPage # 0 =>
               \A j \in (Len(findToCBlock(pages)) + 1)..Len(origin) :
                   origin[j] < StopPage

\* The extension visited two pages and stopped at the second, and a line of
\* the initial detection comes from a page after it.
C12_Witness ==
    /\ Extended
    /\ Len(scanned) = 2
    /\ StopPage = scanned[2]
    /\ \E j \in 1..Len(origin) : origin[j] > StopPage

(***************************************************************************)
(* Claims on the fallback segmenter.                                       *)
(***************************************************************************)
\* fallbackSections has returned and nothing has touched its output yet.
FellBack == pc = "write" /\ usedFallback

\* C13: in page mode, which every mode value but "heading" selects, a
\* document of N pages yields N sections in page order, the i-th with
\* Number i, Title "Page i", Start = End = i and Depth 1.
C13_PageMode ==
    (FellBack /\ cfg.FallbackSplit # "heading") =>
        /\ Len(sections) = Len(pages)
        /\ \A i \in 1..Len(sections) :
              /\ IsDigits(sections[i].Number)
              /\ Atoi(sections[i].Number) = i
              /\ sections[i].Title =
                     <<"P", "a", "g", "e", " ">> \o sections[i].Number
              /\ sections[i].Start = i
              /\ sections[i].End = i
              /\ sections[i].Depth = 1

\* Scenario 3 under a mode value that names no mode: three pages, three
\* sections, the last one "Page 3".
C13_Witness ==
    /\ FellBack
    /\ cfg.FallbackSplit = "chapter"
    /\ Len(pages) = 3
    /\ Len(sections) = 3
    /\ sections[3].Title = <<"P", "a", "g", "e", " ", "3">>

\* The page holds a line that looks like a heading.
HoldsHeading(page) == \E k \in 1..Len(page) : IsHeading(TrimSpace(page[k]))

\* C14: in heading mode the sections partition the pages 1..N: the first
\* starts at page 1, each later one starts on a page holding a heading, right
\* after the end of the one before, the last ends at page N, and they are
\* numbered 1, 2, ... in order.
C14_HeadingPartition ==
    (FellBack /\ cfg.FallbackSplit = "heading") =>
        /\ Len(sections) >= 1
        /\ sections[1].Start = 1
        /\ sections[Len(sections)].End = Len(pages)
        /\ \A k \in 1..Len(sections) :
              /\ sections[k].Start <= sections[k].End
              /\ IsDigits(sections[k].Number)
              /\ Atoi(sections[k].Number) = k
        /\ \A k \in 2..Len(sections) :
              /\ sections[k].Start = sections[k - 1].End + 1
              /\ HoldsHeading(pages[sections[k].Start])

\* A three-page document split in two at a heading on page 2, the second
\* section running over two pages.
C14_Witness ==
    /\ FellBack
    /\ cfg.FallbackSplit = "heading"
    /\ Len(pages) = 3
    /\ Len(sections) = 2
    /\ sections[2].Start = 2
    /\ sections[2].End = 3

\* C15: fallback output is flat: every section has Depth 1 and no children,
\* and the tree handed to the navigation writer is the flat list itself, in
\* the same order.
C15_FallbackFlat ==
    usedFallback =>
        /\ \A k \in 1..Len(sections) :
              sections[k].Depth = 1 /\ sections[k].Children = <<>>
        /\ pc = "nav" => tree = sections

\* Heading mode gave several sections and buildHierarchy has run on them.
C15_Witness ==
    /\ usedFallback
    /\ pc = "nav"
    /\ cfg.FallbackSplit = "heading"
    /\ Len(sections) >= 2
    /\ Len(tree) = Len(sections)

(***************************************************************************)
(* Claims on transformTables.                                              *)
(***************************************************************************)
\* The number of fields of a line (0: a blank line).
FieldCount(ln) ==
    IF TrimSpace(ln) = <<>> THEN 0 ELSE Len(splitBy2Spaces(ln))

\* Lines a..b of the text are a maximal run of at least two lines with the
\* same number k >= 2 of fields.
IsMaximalRun(t, a, b) ==
    /\ a < b
    /\ FieldCount(t[a]) >= 2
    /\ \A j \in a..b : FieldCount(t[j]) = FieldCount(t[a])
    /\ a = 1 \/ FieldCount(t[a - 1]) # FieldCount(t[a])
    /\ b = Len(t) \/ FieldCount(t[b + 1]) # FieldCount(t[a])

\* The table of m + 1 rows for lines a..b: header, separator, data rows.
TableOf(t, a, b) ==
    <<TableRow(splitBy2Spaces(t[a])), SeparatorRow(FieldCount(t[a]))>>
    \o [j \in 1..(b - a) |-> TableRow(splitBy2Spaces(t[a + j]))]

\* sub stands somewhere in s, as consecutive lines.
HasBlock(s, sub) ==
    \E k \in 0..(Len(s) - Len(sub)) : SubSeq(s, k + 1, k + Len(sub)) = sub

\* C16: every maximal run of m >= 2 consecutive non-blank lines with the
\* same number k >= 2 of fields comes out as a table of m + 1 rows: its
\* first line as header, a separator row of k cells, the other lines as
\* data rows in their order.
C16_EveryRunIsATable ==
    pc = "done" =>
        \A a \in 1..Len(input), b \in 1..Len(input) :
            IsMaximalRun(input, a, b) =>
                HasBlock(output[1], TableOf(input, a, b))

\* A separator row of some table.
IsSeparatorRow(ln) == \E k \in 2..3 : ln = SeparatorRow(k)

\* The output without the separator rows.
WithoutSeparators(out) == SelectSeq(out, LAMBDA ln : ~IsSeparatorRow(ln))

\* C17: no text is dropped or duplicated: apart from the separator rows,
\* the output is the input line for line, each line either unchanged or
\* turned into one table row.
C17_NothingLostOrDoubled ==
    pc = "done" =>
        LET kept == WithoutSeparators(output[1]) IN
        /\ Len(kept) = Len(input)
        /\ \A j \in 1..Len(input) :
              \/ kept[j] = input[j]
              \/ kept[j] = TableRow(splitBy2Spaces(input[j]))

(***************************************************************************)
(* Claims on the entry matcher, the slug transform and parseToCLines.      *)
(***************************************************************************)
\* C18: for every decimal entry "N.M title leader PAGE", whichever leader
\* style joins title and page, matchToC on the normalized line returns a
\* match with Number "N.M", Depth 2 and Page PAGE.
C18_LeaderStyleIndependent ==
    pc = "done" =>
        /\ output[1].ok
        /\ output[1].e.Number = input.N \o <<".">> \o input.M
        /\ output[1].e.Depth = 2
        /\ output[1].e.Page = input.Page

\* C19: a slug is made of lowercase letters, digits and single hyphens only,
\* neither starts nor ends with a hyphen, and is its own slug.
C19_SlugShape ==
    pc = "done" =>
        LET g == output[1] IN
        /\ \A k \in 1..Len(g) : g[k] \in Lower \cup Digits \cup {"-"}
        /\ Len(g) > 0 => (g[1] # "-" /\ g[Len(g)] # "-")
        /\ \A k \in 1..(Len(g) - 1) : ~(g[k] = "-" /\ g[k + 1] = "-")
        /\ slugify(g) = g

\* "B .a", whose blank and dot both turn into hyphens, gives "b-a".
C19_Witness ==
    /\ pc = "done"
    /\ input = <<"B", " ", ".", "a">>
    /\ output = <<<<"b", "-", "a">>>>

\* The entries of the candidate lines that match a pattern, in line order.
MatchedInOrder ==
    LET ms == [k \in 1..Len(tocLines) |->
                  matchToC(normalizeDotLeaders(tocLines[k]))]
        ok == SelectSeq(ms, LAMBDA m : m.ok)
    IN  [k \in 1..Len(ok) |-> ok[k].e]

\* The entries of es page by page, the pages ps in ascending order, the
\* entries of one page in the order they have in es.
RECURSIVE PageByPage(_, _)
PageByPage(es, ps) ==
    IF ps = {} THEN <<>>
    ELSE LET p == CHOOSE q \in ps : \A r \in ps : q <= r IN
         SelectSeq(es, LAMBDA e : e.Page = p) \o PageByPage(es, ps \ {p})

\* C20: parseToCLines returns one entry per matching line, by non-decreasing
\* page, entries of the same page in line order, whatever the order of the
\* candidate lines.
C20_StableByPage ==
    pc = "build" =>
        LET m == MatchedInOrder IN
        /\ Len(entries) = Len(m)
        /\ \A k \in 1..(Len(entries) - 1) : entries[k].Page <= entries[k + 1].Page
        /\ entries = PageByPage(m, {m[k].Page : k \in 1..Len(m)})

\* Lines out of page order, two of them on the same page: "2 ... 9",
\* "1 ... 4", "1.1 ... 4" come out as "1", "1.1", "2".
C20_Witness ==
    /\ pc = "build"
    /\ tocLines = <<LineInstall, LineSafety, LineRules>>
    /\ Len(entries) = 3
    /\ entries[1].Number = <<"1">>
    /\ entries[2].Number = <<"1", ".", "1">>
    /\ entries[3].Number = <<"2">>

(***************************************************************************)
(* Further claims on the ToC locator, the hierarchy assembler and the page *)
(* collector.                                                              *)
(***************************************************************************)
\* C21: no occurrence of a line is returned twice: the pages from which the
\* extension added lines are none of the pages from which the initial
\* detection took its lines.
C21_NoLineTwice ==
    Extended =>
        LET b == Len(findToCBlock(pages)) IN
        \A i \in 1..b, j \in (b + 1)..Len(origin) : origin[i] # origin[j]

\* C22: each returned root is the section that was placed as that root
\* (section k of a flat list of SpecH is the one on page k), with the
\* children attached to that very section, also when numbers repeat.
C22_RootsKeepIdentity ==
    pc = "built" =>
        /\ Len(tree) = Len(roots)
        /\ \A k \in 1..Len(tree) : tree[k] = nodes[roots[k].Start]

\* C23: collectTextByPage never reads outside the page list: for any span
\* it returns the pages max(1, start)..min(end, N) in ascending order, one
\* PageText per page, and nothing when that range is empty.
C23_CollectsClampedSpan ==
    pc = "done" =>
        LET r == output[1]
            lo == MaxOf(1, input.Start)
            hi == Min(input.End, Len(pages))
        IN  /\ ~r.panicked
            /\ Len(r.out) = (IF hi < lo THEN 0 ELSE hi - lo + 1)
            /\ \A k \in 1..Len(r.out) :
                  /\ r.out[k].Page = lo + k - 1
                  /\ r.out[k].Text = transformTables(TrimPage(pages[lo + k - 1]))

\* A span that starts before page 1 and ends after the last page of a
\* three-page document gives the three pages.
C23_Witness ==
    /\ pc = "done"
    /\ Len(pages) = 3
    /\ input.Start < 1
    /\ input.End > 3
    /\ Len(output[1].out) = 3
    /\ output[1].out[3].Page = 3

====
